---------------------------- MODULE Spec2Model ----------------------------
(***************************************************************************)
(* Bit-level model of the RISC-V numeric-ops simulator: BitVector,         *)
(* TwosComplement, ALU, Shifter, MDU, Divider and FloatArithmetic.         *)
(*                                                                         *)
(* A BitVector is a sequence of bits, index 1 being the most significant   *)
(* bit (the code's index 0).  The code works on 32-bit words with an 8-bit *)
(* exponent and a 23-bit mantissa; the model keeps every algorithm and     *)
(* scales the word to XLEN bits and the exponent field to EXPONENT_WIDTH   *)
(* bits, the mantissa field taking the rest of the word, as 32 = 1+8+23.   *)
(***************************************************************************)
EXTENDS Integers, Sequences, FiniteSets, TLC

\* Word width (32 in the code) and exponent field width (8 in the code).
XLEN == 6
EXPONENT_WIDTH == 3
\* Mantissa field width (23 in the code): the word less sign and exponent.
MANTISSA_WIDTH == XLEN - 1 - EXPONENT_WIDTH
\* Largest operand width where the width itself varies.
MaxWidth == 3
\* Bits per hexadecimal digit.
NIBBLE == 4
\* Hexadecimal digits of a word (8 in the code, for the 32-bit word).
HEX_WORD_DIGITS == 2

VARIABLES rs1, rs2, op, out

vars == <<rs1, rs2, op, out>>

Bit == {0, 1}

---------------------------------------------------------------------------
(* part1_foundation.py : BitVector                                         *)

\* A vector is held as an explicit list of its bits: the list holding
\* f[1], ..., f[n], built element by element.
RECURSIVE ToSeq(_, _)
ToSeq(f, n) == IF n = 0 THEN <<>> ELSE Append(ToSeq(f, n - 1), f[n])

\* BitVector(width): zero-initialised vector.
Zeros(width) == ToSeq([i \in 1..width |-> 0], width)

Ones(width) == ToSeq([i \in 1..width |-> 1], width)

\* Every BitVector of a given width.
BitVectors(width) == [1..width -> Bit]

\* Variant of the coercion that stores the value as given.
CoerceBit_AsGiven(val) == val

\* "1 if val else 0": zero is false, every other number is true.
CoerceBit(val) == IF val # 0 THEN 1 ELSE 0

\* BitVector(list) of part1_foundation.py: [1 if b else 0 for b in bits].
FromList(list) == ToSeq([i \in 1..Len(list) |-> CoerceBit(list[i])], Len(list))

\* BitVector(list) of RISC-V_1.py: self.bits = bits[:], the elements as they
\* are.
FromList1(list) == ToSeq(list, Len(list))

\* copy(): BitVector(self.bits[:])
Copy(bits) == FromList(ToSeq(bits, Len(bits)))

\* __setitem__(idx, val) with a 0-based index: a negative index counts from
\* the end, an index outside the list raises IndexError and stores nothing.
IndexInRange(bits, idx) == -Len(bits) <= idx /\ idx < Len(bits)

SetItem(bits, idx, val) ==
    LET pos == IF idx < 0 THEN idx + Len(bits) ELSE idx
    IN  [bits EXCEPT ![pos + 1] = CoerceBit(val)]

\* bits[lo:hi] of the code (0-based, hi exclusive) as a fresh vector.
Slice(bits, lo, hi) == ToSeq([i \in 1..(hi - lo) |-> bits[lo + i]], hi - lo)

\* List concatenation a.bits + b.bits as a fresh vector.
Concat(a, b) ==
    ToSeq([i \in 1..(Len(a) + Len(b)) |->
              IF i <= Len(a) THEN a[i] ELSE b[i - Len(a)]], Len(a) + Len(b))

AllZero(bits) == \A i \in 1..Len(bits) : bits[i] = 0

AllOne(bits) == \A i \in 1..Len(bits) : bits[i] = 1

\* hex_chars = "0123456789ABCDEF", and the lower-case letters hex_map adds.
hex_chars ==
    <<"0", "1", "2", "3", "4", "5", "6", "7", "8", "9",
      "A", "B", "C", "D", "E", "F">>

lower_hex_chars == <<"a", "b", "c", "d", "e", "f">>

\* The keys of hex_map in part1_foundation.py: digits and letters of both
\* cases.
InHexMap(char) ==
    \/ \E k \in 1..Len(hex_chars) : hex_chars[k] = char
    \/ \E k \in 1..Len(lower_hex_chars) : lower_hex_chars[k] = char

\* hex_map[char]: the four bits of the digit, MSB first.
HexMap(char) ==
    LET digit == IF \E k \in 1..Len(hex_chars) : hex_chars[k] = char
                 THEN (CHOOSE k \in 1..Len(hex_chars) : hex_chars[k] = char) - 1
                 ELSE 9 + (CHOOSE k \in 1..Len(lower_hex_chars) :
                               lower_hex_chars[k] = char)
    IN  ToSeq([i \in 1..NIBBLE |-> (digit \div (2 ^ (NIBBLE - i))) % 2], NIBBLE)

\* str.upper() and str.lower() on one character.
Upper(char) ==
    IF \E k \in 1..Len(lower_hex_chars) : lower_hex_chars[k] = char
    THEN hex_chars[10 + (CHOOSE k \in 1..Len(lower_hex_chars) :
                             lower_hex_chars[k] = char)]
    ELSE IF char = "x" THEN "X"
    ELSE IF char = "g" THEN "G"
    ELSE char

Lower(char) ==
    IF \E k \in 11..Len(hex_chars) : hex_chars[k] = char
    THEN lower_hex_chars[(CHOOSE k \in 11..Len(hex_chars) :
                              hex_chars[k] = char) - 10]
    ELSE IF char = "X" THEN "x"
    ELSE IF char = "G" THEN "g"
    ELSE char

\* hex_str[2:]
DropPrefix(text) == ToSeq([i \in 1..(Len(text) - 2) |-> text[i + 2]], Len(text) - 2)

\* while len(hex_str) < 8: hex_str = '0' + hex_str
PadHex(text) ==
    IF Len(text) >= HEX_WORD_DIGITS THEN text
    ELSE ToSeq([i \in 1..HEX_WORD_DIGITS |->
                   IF i <= HEX_WORD_DIGITS - Len(text) THEN "0"
                   ELSE text[i - (HEX_WORD_DIGITS - Len(text))]],
               HEX_WORD_DIGITS)

\* Appending the four bits of a digit: all_bits.extend(hex_map[char]).
RECURSIVE Extend(_, _, _)
Extend(all_bits, nibble, i) ==
    IF i > Len(nibble) THEN all_bits
    ELSE Extend(Append(all_bits, nibble[i]), nibble, i + 1)

\* The loop of from_hex in part1_foundation.py: a character outside
\* hex_map adds nothing and the loop goes on.
RECURSIVE HexLoop(_, _, _)
HexLoop(text, i, all_bits) ==
    IF i > Len(text) THEN all_bits
    ELSE HexLoop(text, i + 1,
                 IF InHexMap(text[i]) THEN Extend(all_bits, HexMap(text[i]), 1)
                 ELSE all_bits)

\* BitVector.from_hex of part1_foundation.py: strip a 0x prefix of either
\* case, pad to the digits of a word, map each character, keep the last
\* word of bits when there are more.
FromHex(hex_str) ==
    LET prefixed == /\ Len(hex_str) >= 2
                    /\ Lower(hex_str[1]) = "0" /\ Lower(hex_str[2]) = "x"
        text == PadHex(IF prefixed THEN DropPrefix(hex_str) ELSE hex_str)
        all_bits == HexLoop(text, 1, <<>>)
        word == NIBBLE * HEX_WORD_DIGITS
    IN  [bits |-> IF Len(all_bits) > word
                  THEN ToSeq([i \in 1..word |->
                                 all_bits[Len(all_bits) - word + i]], word)
                  ELSE all_bits]

\* raise ValueError(f"Invalid hex character: {char}")
InvalidHexCharacter == [raised |-> "ValueError: Invalid hex character"]

\* The loop of from_hex in RISC-V_1.py over hex_str.upper(): a character
\* outside the upper-case hex_map raises.
RECURSIVE HexLoop1(_, _, _)
HexLoop1(text, i, bits) ==
    IF i > Len(text) THEN [bits |-> bits]
    ELSE LET char == Upper(text[i])
         IN  IF \E k \in 1..Len(hex_chars) : hex_chars[k] = char
             THEN HexLoop1(text, i + 1, Extend(bits, HexMap(char), 1))
             ELSE InvalidHexCharacter

\* BitVector.from_hex of RISC-V_1.py: strip a 0x or 0X prefix, map each
\* character, no padding and no truncation.
FromHex1(hex_str) ==
    LET prefixed == /\ Len(hex_str) >= 2
                    /\ hex_str[1] = "0" /\ hex_str[2] \in {"x", "X"}
    IN  HexLoop1(IF prefixed THEN DropPrefix(hex_str) ELSE hex_str, 1, <<>>)

\* to_hex of part1_foundation.py: zero bits are prepended up to a multiple
\* of four, then each group of four bits, weights 8 4 2 1, selects a
\* character of hex_chars after the text "0x".
PaddedBits(bits) ==
    IF Len(bits) % NIBBLE # 0
    THEN LET padding_len == NIBBLE - (Len(bits) % NIBBLE)
         IN  ToSeq([i \in 1..(padding_len + Len(bits)) |->
                       IF i <= padding_len THEN 0 ELSE bits[i - padding_len]],
                   padding_len + Len(bits))
    ELSE bits

RECURSIVE ToHexLoop(_, _, _)
ToHexLoop(padded_bits, i, result) ==
    IF i >= Len(padded_bits) THEN result
    ELSE LET nibble == 8 * padded_bits[i + 1] + 4 * padded_bits[i + 2]
                       + 2 * padded_bits[i + 3] + padded_bits[i + 4]
         IN  ToHexLoop(padded_bits, i + NIBBLE,
                       Append(result, hex_chars[nibble + 1]))

ToHex(bits) == ToHexLoop(PaddedBits(bits), 0, <<"0", "x">>)

\* to_hex of RISC-V_1.py: groups of four from the MSB with no padding; in
\* a last, shorter group only the bits present are shifted into the nibble.
RECURSIVE NibbleOf1(_, _, _, _)
NibbleOf1(bits, i, j, nibble) ==
    IF j >= NIBBLE THEN nibble
    ELSE NibbleOf1(bits, i, j + 1,
                   IF i + j < Len(bits) THEN 2 * nibble + bits[i + j + 1]
                   ELSE nibble)

RECURSIVE ToHexLoop1(_, _, _)
ToHexLoop1(bits, i, result) ==
    IF i >= Len(bits) THEN result
    ELSE ToHexLoop1(bits, i + NIBBLE,
                    Append(result, hex_chars[NibbleOf1(bits, i, 0, 0) + 1]))

ToHex1(bits) == ToHexLoop1(bits, 0, <<"0", "x">>)

\* str(bit)
BitChar(bit) == IF bit = 1 THEN "1" ELSE "0"

\* to_bin of both files: the bits MSB first, an underscore before every
\* bit whose 0-based index is a positive multiple of four.
RECURSIVE ToBinLoop(_, _, _)
ToBinLoop(bits, i, result) ==
    IF i >= Len(bits) THEN result
    ELSE ToBinLoop(bits, i + 1,
                   Append(IF i > 0 /\ i % NIBBLE = 0 THEN Append(result, "_")
                          ELSE result,
                          BitChar(bits[i + 1])))

ToBin(bits) == ToBinLoop(bits, 0, <<>>)

---------------------------------------------------------------------------
(* Bit gates                                                               *)

XOR(a, b) == IF a = b THEN 0 ELSE 1

AND(a, b) == IF a = 1 /\ b = 1 THEN 1 ELSE 0

OR(a, b) == IF a = 1 \/ b = 1 THEN 1 ELSE 0

Pow2(n) == 2 ^ n

Abs(x) == IF x < 0 THEN -x ELSE x

---------------------------------------------------------------------------
(* part2_twos_complement.py : TwosComplement                               *)

\* _invert: bit-wise NOT.
Invert(bits) == ToSeq([i \in 1..Len(bits) |-> 1 - bits[i]], Len(bits))

\* _add_one: ripple from the LSB with carry-in 1; sum = bit XOR carry,
\* carry = bit AND carry.
RECURSIVE AddOneFrom(_, _, _, _)
AddOneFrom(bits, i, carry, result) ==
    IF i = 0 THEN result
    ELSE AddOneFrom(bits, i - 1, AND(bits[i], carry),
                    [result EXCEPT ![i] = XOR(bits[i], carry)])

AddOne(bits) == AddOneFrom(bits, Len(bits), 1, bits)

\* Variant of the magnitude loop that stops one bit short and leaves the
\* MSB at 0.
MagnitudeBits_NoMsb(value, width) ==
    ToSeq([i \in 1..width |->
              IF i = 1 THEN 0 ELSE (value \div Pow2(width - i)) % 2], width)

\* The loop "bits[i] = temp % 2; temp = temp // 2" from the LSB up: bit i
\* (1-based, MSB first) of a non-negative value is (value // 2^(width-i)) % 2.
MagnitudeBits(value, width) ==
    ToSeq([i \in 1..width |-> (value \div Pow2(width - i)) % 2], width)

\* The loop "value = value * 2; if bit == 1: value = value + 1".
RECURSIVE BinaryValue(_, _, _)
BinaryValue(bits, i, value) ==
    IF i > Len(bits) THEN value
    ELSE BinaryValue(bits, i + 1, value * 2 + bits[i])

Unsigned(bits) == BinaryValue(bits, 1, 0)

\* Variant of encode that wraps an out-of-range value modulo 2^width instead
\* of clamping it.
Encode_Wrapping(value, width) ==
    [bits |-> MagnitudeBits(value % Pow2(width), width),
     overflow |-> value < -Pow2(width - 1) \/ value > Pow2(width - 1) - 1]

\* encode(value, width): clamps to the signed range and reports overflow.
Encode(value, width) ==
    LET min_val == -Pow2(width - 1)
        max_val == Pow2(width - 1) - 1
        overflow == value < min_val \/ value > max_val
        clamped == IF value < min_val THEN min_val
                   ELSE IF value > max_val THEN max_val ELSE value
    IN  [bits |-> IF clamped >= 0
                  THEN MagnitudeBits(clamped, width)
                  ELSE AddOne(Invert(MagnitudeBits(-clamped, width))),
         overflow |-> overflow]

\* Variant of decode that reads a negative pattern as one's complement
\* (inverts without adding one).
Decode_OnesComplement(bits) ==
    IF bits[1] = 0 THEN Unsigned(bits)
    ELSE -Unsigned(Invert(bits))

\* decode(bits): MSB 0 reads the magnitude, MSB 1 inverts, adds one, negates.
Decode(bits) ==
    IF bits[1] = 0 THEN Unsigned(bits)
    ELSE -Unsigned(AddOne(Invert(bits)))

\* sign_extend / zero_extend: [x] * (new_width - len) is empty when the
\* difference is not positive.
Extension(fill, n) ==
    LET k == IF n > 0 THEN n ELSE 0 IN ToSeq([i \in 1..k |-> fill], k)

\* Variant of sign_extend that prepends zeros whatever the sign bit.
SignExtend_ZeroFill(bits, new_width) ==
    Concat(Extension(0, new_width - Len(bits)), bits)

SignExtend(bits, new_width) ==
    Concat(Extension(bits[1], new_width - Len(bits)), bits)

ZeroExtend(bits, new_width) ==
    Concat(Extension(0, new_width - Len(bits)), bits)

\* sign_extend / zero_extend of RISC-V_2.py: a copy when new_width <=
\* len(bits); otherwise a zero vector of new_width whose leading positions
\* are set to the sign bit (sign_extend only) and whose trailing len(bits)
\* positions receive the bits.
Extend2(bits, new_width, fill) ==
    IF new_width <= Len(bits) THEN Copy(bits)
    ELSE ToSeq([i \in 1..new_width |->
                   IF i <= new_width - Len(bits) THEN fill
                   ELSE bits[i - (new_width - Len(bits))]], new_width)

SignExtend2(bits, new_width) == Extend2(bits, new_width, bits[1])

ZeroExtend2(bits, new_width) == Extend2(bits, new_width, 0)

---------------------------------------------------------------------------
(* part3_alu.py : ALU                                                      *)

\* full_adder(a, b, cin) -> <<sum, carry_out>>
FullAdder(a, b, cin) ==
    <<XOR(XOR(a, b), cin), OR(AND(a, b), AND(cin, XOR(a, b)))>>

\* The ripple-carry loop of add and sub, from index width down to 1; the
\* carry into the MSB is captured at the MSB position.
RECURSIVE Ripple(_, _, _, _)
Ripple(a, b, i, s) ==
    IF i = 0 THEN s
    ELSE LET fa == FullAdder(a[i], b[i], s.carry)
         IN  Ripple(a, b, i - 1,
                    [result |-> [s.result EXCEPT ![i] = fa[1]],
                     carry |-> fa[2],
                     carry_in_msb |-> IF i = 1 THEN s.carry
                                      ELSE s.carry_in_msb])

\* N, Z, C and V = carry_in_msb XOR carry, shared by add and sub.
Flags(s) ==
    [result |-> s.result,
     N |-> s.result[1],
     Z |-> IF AllZero(s.result) THEN 1 ELSE 0,
     C |-> s.carry,
     V |-> XOR(s.carry_in_msb, s.carry)]

WidthError == [raised |-> "ValueError"]

\* Variant of ALU.add whose ripple starts with carry-in 1, as sub's does.
ALU_add_CarryInOne(a_bits, b_bits) ==
    IF Len(b_bits) # Len(a_bits) THEN WidthError
    ELSE Flags(Ripple(a_bits, b_bits, Len(a_bits),
                      [result |-> Zeros(Len(a_bits)), carry |-> 1,
                       carry_in_msb |-> 0]))

\* ALU.add
ALU_add(a_bits, b_bits) ==
    IF Len(b_bits) # Len(a_bits) THEN WidthError
    ELSE Flags(Ripple(a_bits, b_bits, Len(a_bits),
                      [result |-> Zeros(Len(a_bits)), carry |-> 0,
                       carry_in_msb |-> 0]))

\* What a list raises when read past its end.
IndexError == [raised |-> "IndexError"]

\* Variant of ALU.sub that forgets the carry-in of 1 (computes A + ~B).
ALU_sub_NoCarryIn(a_bits, b_bits) ==
    IF Len(b_bits) < Len(a_bits) THEN IndexError
    ELSE Flags(Ripple(a_bits, Invert(b_bits), Len(a_bits),
                      [result |-> Zeros(Len(a_bits)), carry |-> 0,
                       carry_in_msb |-> 0]))

\* ALU.sub: A + ~B with carry-in 1.  The widths are not compared: the loop
\* runs over the indices of A, so a shorter B is read past its end at the
\* first iteration, and of a longer B the leading len(A) bits are used.
ALU_sub(a_bits, b_bits) ==
    IF Len(b_bits) < Len(a_bits) THEN IndexError
    ELSE Flags(Ripple(a_bits, Invert(b_bits), Len(a_bits),
                      [result |-> Zeros(Len(a_bits)), carry |-> 1,
                       carry_in_msb |-> 0]))

---------------------------------------------------------------------------
(* RISC-V_3.py : ALU, the variant that derives V from the operand signs    *)

\* The plain ripple loop of RISC-V_3.py: <<result, carry_out>>.
RECURSIVE Ripple3(_, _, _, _, _)
Ripple3(a, b, i, carry, result) ==
    IF i = 0 THEN <<result, carry>>
    ELSE LET fa == FullAdder(a[i], b[i], carry)
         IN  Ripple3(a, b, i - 1, fa[2], [result EXCEPT ![i] = fa[1]])

\* ALU.add of RISC-V_3.py: V = 1 iff sign(a) = sign(b) and sign(result) # sign(a).
ALU3_add(a_bits, b_bits) ==
    IF Len(b_bits) # Len(a_bits) THEN WidthError
    ELSE LET r == Ripple3(a_bits, b_bits, Len(a_bits), 0, Zeros(Len(a_bits)))
         IN  [result |-> r[1],
              N |-> r[1][1],
              Z |-> IF AllZero(r[1]) THEN 1 ELSE 0,
              C |-> r[2],
              V |-> IF a_bits[1] = b_bits[1] /\ r[1][1] # a_bits[1]
                    THEN 1 ELSE 0]

\* Variant of RISC-V_3.py's ALU.sub that keeps add's overflow rule (operand
\* signs equal).
ALU3_sub_AddRule(a_bits, b_bits) ==
    IF Len(b_bits) # Len(a_bits) THEN WidthError
    ELSE LET width == Len(a_bits)
             neg_b == Ripple3(Invert(b_bits), Zeros(width), width, 1,
                              Zeros(width))[1]
             r == Ripple3(a_bits, neg_b, width, 0, Zeros(width))
         IN  [result |-> r[1],
              N |-> r[1][1],
              Z |-> IF AllZero(r[1]) THEN 1 ELSE 0,
              C |-> r[2],
              V |-> IF a_bits[1] = b_bits[1] /\ r[1][1] # a_bits[1]
                    THEN 1 ELSE 0]

\* ALU.sub of RISC-V_3.py: neg_b = ~b + 1 by a first ripple, then a + neg_b
\* with carry-in 0; V = 1 iff sign(a) # sign(b) and sign(result) # sign(a).
ALU3_sub(a_bits, b_bits) ==
    IF Len(b_bits) # Len(a_bits) THEN WidthError
    ELSE LET width == Len(a_bits)
             neg_b == Ripple3(Invert(b_bits), Zeros(width), width, 1,
                              Zeros(width))[1]
             r == Ripple3(a_bits, neg_b, width, 0, Zeros(width))
         IN  [result |-> r[1],
              N |-> r[1][1],
              Z |-> IF AllZero(r[1]) THEN 1 ELSE 0,
              C |-> r[2],
              V |-> IF a_bits[1] # b_bits[1] /\ r[1][1] # a_bits[1]
                    THEN 1 ELSE 0]

---------------------------------------------------------------------------
(* part4_shifter_mdu.py : Shifter and MDU                                  *)

\* Variant of shift_left_logical that takes the shift amount modulo the
\* width, as a hardware barrel shifter does.
ShiftLeftLogical_ModWidth(bits, shamt) ==
    ToSeq([i \in 1..Len(bits) |->
              IF i + (shamt % Len(bits)) <= Len(bits)
              THEN bits[i + (shamt % Len(bits))] ELSE 0], Len(bits))

\* shift_left_logical: result[i] = bits[i + shamt] when inside, else 0.
ShiftLeftLogical(bits, shamt) ==
    ToSeq([i \in 1..Len(bits) |->
              IF i + shamt <= Len(bits) THEN bits[i + shamt] ELSE 0], Len(bits))

\* shift_right_logical: result[i] = bits[i - shamt] when inside, else 0.
ShiftRightLogical(bits, shamt) ==
    ToSeq([i \in 1..Len(bits) |->
              IF i - shamt >= 1 THEN bits[i - shamt] ELSE 0], Len(bits))

\* Variant of shift_right_arithmetic that fills with zeros.
ShiftRightArithmetic_ZeroFill(bits, shamt) ==
    ToSeq([i \in 1..Len(bits) |->
              IF i - shamt >= 1 THEN bits[i - shamt] ELSE 0], Len(bits))

\* shift_right_arithmetic: as the logical shift, filled with the sign bit.
ShiftRightArithmetic(bits, shamt) ==
    ToSeq([i \in 1..Len(bits) |->
              IF i - shamt >= 1 THEN bits[i - shamt] ELSE bits[1]], Len(bits))

\* MDU._is_neg
IsNeg(bits) == bits[1] = 1

\* One iteration of the shift-add loop: add M into A when the LSB of Q is
\* 1, then shift A:Q right, A's LSB entering Q's MSB.
MulStep(A, Q, M) ==
    LET width == Len(Q)
        A_added == IF Q[width] = 1 THEN ALU_add(A, M).result ELSE A
        A_lsb == A_added[width]
    IN  [A |-> ShiftRightLogical(A_added, 1),
         Q |-> [ShiftRightLogical(Q, 1) EXCEPT ![1] = A_lsb]]

\* for i in range(1, width + 1)
RECURSIVE MulLoop(_, _, _, _)
MulLoop(A, Q, M, i) ==
    IF i > Len(Q) THEN [A |-> A, Q |-> Q]
    ELSE LET s == MulStep(A, Q, M) IN MulLoop(s.A, s.Q, M, i + 1)

\* The overflow flag: a positive result overflows when the high half is
\* non-zero; a negative one when the high half holds a 0 bit, or equals
\* INT_MIN while the low half of the magnitude is zero.
MulOverflow(final_sign, A, Q) ==
    IF ~final_sign
    THEN IF \E i \in 1..Len(A) : A[i] = 1 THEN 1 ELSE 0
    ELSE IF \/ \E i \in 1..Len(A) : A[i] = 0
            \/ (A = Encode(-Pow2(XLEN - 1), XLEN).bits /\ Q = Zeros(XLEN))
         THEN 1 ELSE 0

\* MDU.mul: magnitudes, the loop, then the two's complement of the
\* double-width product when the signs differ.
MDU_mul(rs1_bits, rs2_bits) ==
    LET width == XLEN
        final_sign == IsNeg(rs1_bits) # IsNeg(rs2_bits)
        M == Encode(Abs(Decode(rs1_bits)), XLEN).bits
        Q0 == Encode(Abs(Decode(rs2_bits)), XLEN).bits
        fin == MulLoop(Zeros(width), Q0, M, 1)
        neg_result == Encode(-Decode(Concat(fin.A, fin.Q)), 2 * width).bits
        rd_bits == IF final_sign THEN Slice(neg_result, width, 2 * width)
                   ELSE fin.Q
        A == IF final_sign THEN Slice(neg_result, 0, width) ELSE fin.A
    IN  [rd |-> rd_bits, hi |-> A,
         overflow |-> MulOverflow(final_sign, A, fin.Q)]

---------------------------------------------------------------------------
(* part5_division.py : Divider                                             *)

\* TwosComplement.encode(-TwosComplement.decode(x)['value'])['bits'], the
\* magnitude / sign fix-up conversion, at the default word width.
NegateWord(bits) == Encode(-Decode(bits), XLEN).bits

\* Variant of the division-by-zero case that returns a zero remainder.
DivByZeroCase_ZeroRemainder(rs1_bits) ==
    [quotient |-> Ones(Len(rs1_bits)), remainder |-> Zeros(Len(rs1_bits))]

\* Division by zero: quotient all ones, remainder a copy of the dividend.
DivByZeroCase(rs1_bits) ==
    [quotient |-> Ones(Len(rs1_bits)), remainder |-> rs1_bits]

\* Variant of the INT_MIN / -1 case that negates the dividend through the
\* clamping encoder.
DivOverflowCase_Negated(rs1_bits) ==
    [quotient |-> NegateWord(rs1_bits), remainder |-> Zeros(Len(rs1_bits))]

\* INT_MIN / -1: quotient INT_MIN, remainder zero.
DivOverflowCase(rs1_bits) ==
    [quotient |-> Encode(-Pow2(XLEN - 1), XLEN).bits,
     remainder |-> Zeros(Len(rs1_bits))]

\* bits.pop(0); bits.append(x)
PopAppend(bits, x) ==
    ToSeq([i \in 1..Len(bits) |-> IF i < Len(bits) THEN bits[i + 1] ELSE x],
          Len(bits))

\* One iteration: shift R:Q left, try R - M through the ALU, keep the
\* difference and set the quotient LSB when C = 1, restore R otherwise.
DivStep(R, Q, M) ==
    LET width == Len(Q)
        R_shifted == PopAppend(R, Q[1])
        Q_shifted == PopAppend(Q, 0)
        sub_result == ALU_sub(R_shifted, M)
    IN  IF sub_result.C = 1
        THEN [R |-> sub_result.result, Q |-> [Q_shifted EXCEPT ![width] = 1]]
        ELSE [R |-> R_shifted, Q |-> [Q_shifted EXCEPT ![width] = 0]]

\* for i in range(1, width + 1)
RECURSIVE DivLoop(_, _, _, _)
DivLoop(R, Q, M, i) ==
    IF i > Len(Q) THEN [R |-> R, Q |-> Q]
    ELSE LET s == DivStep(R, Q, M) IN DivLoop(s.R, s.Q, M, i + 1)

\* The general path: magnitudes, the loop, then the sign fix-up.
DivGeneral(rs1_bits, rs2_bits) ==
    LET width == Len(rs1_bits)
        sign_dividend == IsNeg(rs1_bits)
        sign_divisor == IsNeg(rs2_bits)
        sign_q == sign_dividend # sign_divisor
        sign_r == sign_dividend
        Q0 == IF sign_dividend THEN NegateWord(rs1_bits) ELSE rs1_bits
        M == IF sign_divisor THEN NegateWord(rs2_bits) ELSE rs2_bits
        fin == DivLoop(Zeros(width), Q0, M, 1)
    IN  [quotient |-> IF sign_q THEN NegateWord(fin.Q) ELSE fin.Q,
         remainder |-> IF sign_r /\ ~AllZero(fin.R) THEN NegateWord(fin.R)
                       ELSE fin.R]

\* Divider.div
Divider_div(rs1_bits, rs2_bits) ==
    IF AllZero(rs2_bits) THEN DivByZeroCase(rs1_bits)
    ELSE IF /\ rs1_bits = Encode(-Pow2(XLEN - 1), XLEN).bits
            /\ rs2_bits = Encode(-1, XLEN).bits
         THEN DivOverflowCase(rs1_bits)
         ELSE DivGeneral(rs1_bits, rs2_bits)

---------------------------------------------------------------------------
(* RISC-V_5.py : Divider, the variant that divides the raw bit patterns    *)

\* "for i in range(width - 1): v[i] = v[i + 1]" followed by v[width-1] = x.
ShiftInLsb(v, x) ==
    ToSeq([i \in 1..Len(v) |-> IF i < Len(v) THEN v[i + 1] ELSE x], Len(v))

\* One iteration of the loop of RISC-V_5.py; the quotient is shifted left
\* after the bit is set, except in the last iteration, its LSB staying.
Div5Step(remainder, dividend, quotient, divisor, step) ==
    LET width == Len(dividend)
        rem_shifted == ShiftInLsb(remainder, dividend[1])
        sub_result == ALU_sub(rem_shifted, divisor)
        taken == sub_result.C = 1
        q_set == [quotient EXCEPT ![width] = IF taken THEN 1 ELSE 0]
    IN  [remainder |-> IF taken THEN sub_result.result ELSE rem_shifted,
         dividend |-> ShiftInLsb(dividend, 0),
         quotient |-> IF step < width - 1 THEN ShiftInLsb(q_set, q_set[width])
                      ELSE q_set]

\* for step in range(width)
RECURSIVE Div5Loop(_, _, _, _, _)
Div5Loop(remainder, dividend, quotient, divisor, step) ==
    IF step >= Len(dividend) THEN [quotient |-> quotient, remainder |-> remainder]
    ELSE LET s == Div5Step(remainder, dividend, quotient, divisor, step)
         IN  Div5Loop(s.remainder, s.dividend, s.quotient, divisor, step + 1)

\* Divider.div of RISC-V_5.py
Divider5_div(rs1_bits, rs2_bits) ==
    LET width == Len(rs1_bits)
        is_int_min == rs1_bits[1] = 1 /\ \A i \in 2..width : rs1_bits[i] = 0
        is_neg_one == AllOne(rs2_bits)
    IN  IF AllZero(rs2_bits)
        THEN [quotient |-> Ones(width), remainder |-> rs1_bits]
        ELSE IF is_int_min /\ is_neg_one
             THEN [quotient |-> rs1_bits, remainder |-> Zeros(width)]
             ELSE Div5Loop(Zeros(width), rs1_bits, Zeros(width), rs2_bits, 0)

---------------------------------------------------------------------------
(* part7_float_arithmetic.py : FloatArithmetic                             *)

\* The all-ones exponent (255 in the code) and the bias (127 in the code).
ExpAllOnes == Pow2(EXPONENT_WIDTH) - 1

Bias == Pow2(EXPONENT_WIDTH - 1) - 1

\* BitVector.from_hex('0x7F800000'): sign 0, exponent all ones, mantissa 0.
InfPattern == Concat(<<0>>, Concat(Ones(EXPONENT_WIDTH), Zeros(MANTISSA_WIDTH)))

\* BitVector.from_hex('0xFF800000')
NegInfPattern == Concat(<<1>>, Concat(Ones(EXPONENT_WIDTH), Zeros(MANTISSA_WIDTH)))

\* Variant of the quiet NaN whose mantissa bit is not set (the pattern of
\* +infinity).
QNaNPattern_MantissaClear ==
    Concat(<<0>>, Concat(Ones(EXPONENT_WIDTH), Zeros(MANTISSA_WIDTH)))

\* BitVector.from_hex('0x7FC00000'): the quiet NaN, top mantissa bit set.
QNaNPattern ==
    Concat(<<0>>, Concat(Ones(EXPONENT_WIDTH),
                         Concat(<<1>>, Zeros(MANTISSA_WIDTH - 1))))

\* _get_fields: sign, exponent, mantissa with the implicit leading 1
\* (all zeros for a zero), and the zero / infinity / NaN tests.
GetFields(bits) ==
    LET exp_bits == Slice(bits, 1, 1 + EXPONENT_WIDTH)
        mantissa_bits == Slice(bits, 1 + EXPONENT_WIDTH, Len(bits))
        exp_val == Decode(ZeroExtend(exp_bits, XLEN))
        is_zero == exp_val = 0 /\ AllZero(mantissa_bits)
    IN  [sign |-> bits[1],
         exp_bits |-> exp_bits,
         exp_val |-> exp_val,
         mantissa_24 |-> IF is_zero THEN Zeros(MANTISSA_WIDTH + 1)
                         ELSE Concat(<<1>>, mantissa_bits),
         is_zero |-> is_zero,
         is_inf |-> exp_val = ExpAllOnes /\ AllZero(mantissa_bits),
         is_nan |-> exp_val = ExpAllOnes /\ ~AllZero(mantissa_bits)]

\* _repack: infinity on exponent overflow, zero on underflow, otherwise
\* sign, the exponent through the signed encoder on EXPONENT_WIDTH bits, and
\* the mantissa without its leading bit.
Repack(sign, exp_val, mantissa_24) ==
    IF exp_val >= ExpAllOnes
    THEN [result |-> [InfPattern EXCEPT ![1] = sign],
          flags |-> [overflow |-> 1]]
    ELSE IF exp_val <= 0
    THEN [result |-> [Zeros(XLEN) EXCEPT ![1] = sign],
          flags |-> [underflow |-> 1]]
    ELSE [result |-> Concat(<<sign>>,
                        Concat(Encode(exp_val, EXPONENT_WIDTH).bits,
                               Slice(mantissa_24, 1, Len(mantissa_24)))),
          flags |-> [overflow |-> 0, underflow |-> 0]]

NoFlags == [overflow |-> 0, underflow |-> 0, invalid |-> 0]

InvalidFlags == [overflow |-> 0, underflow |-> 0, invalid |-> 1]

\* The normalisation scan "for i in range(1, 24)": the 0-based index of the
\* first 1 bit after the leading position, 0 when there is none.
RECURSIVE ShiftNeeded(_, _)
ShiftNeeded(mantissa, i) ==
    IF i > Len(mantissa) - 1 THEN 0
    ELSE IF mantissa[i + 1] = 1 THEN i
    ELSE ShiftNeeded(mantissa, i + 1)

\* Step 3 of add: restore the leading 1 by a left shift, or declare zero.
Normalize(sign_res, exp_res, mantissa_res) ==
    IF mantissa_res[1] = 0
    THEN LET shift_needed == ShiftNeeded(mantissa_res, 1)
         IN  IF shift_needed > 0
             THEN [sign |-> sign_res, exp |-> exp_res - shift_needed,
                   mantissa |-> ShiftLeftLogical(mantissa_res, shift_needed)]
             ELSE [sign |-> 0, exp |-> 0, mantissa |-> mantissa_res]
    ELSE [sign |-> sign_res, exp |-> exp_res, mantissa |-> mantissa_res]

\* Steps 1 to 4 of add for two operands that are neither NaN, infinite nor
\* zero: align, add or subtract the mantissas, normalise, repack.
AddCore(a, b) ==
    LET a_larger == a.exp_val > b.exp_val
        exp_res == IF a_larger THEN a.exp_val ELSE b.exp_val
        shift_amount == IF a_larger THEN a.exp_val - b.exp_val
                        ELSE b.exp_val - a.exp_val
        m_a == IF a_larger THEN a.mantissa_24
               ELSE ShiftRightLogical(a.mantissa_24, shift_amount)
        m_b == IF a_larger THEN ShiftRightLogical(b.mantissa_24, shift_amount)
               ELSE b.mantissa_24
        sign_guess == IF a_larger THEN a.sign ELSE b.sign
        diff == ALU_sub(m_a, m_b)
        sum == ALU_add(m_a, m_b)
        r == IF a.sign # b.sign
             THEN [sign |-> IF diff.C = 0 THEN 1 - sign_guess ELSE sign_guess,
                   exp |-> exp_res,
                   mantissa |-> diff.result]
             ELSE IF sum.C = 1
                  THEN [sign |-> a.sign,
                        exp |-> exp_res + 1,
                        mantissa |-> [ShiftRightLogical(sum.result, 1)
                                          EXCEPT ![1] = 1]]
                  ELSE [sign |-> a.sign, exp |-> exp_res,
                        mantissa |-> sum.result]
        n == Normalize(r.sign, r.exp, r.mantissa)
    IN  Repack(n.sign, n.exp, n.mantissa)

\* FloatArithmetic.add
FloatAdd(a_bits, b_bits) ==
    LET a == GetFields(a_bits)
        b == GetFields(b_bits)
    IN  IF a.is_nan \/ b.is_nan
        THEN [result |-> QNaNPattern, flags |-> InvalidFlags]
        ELSE IF a.is_inf \/ b.is_inf
        THEN IF a.is_inf /\ b.is_inf /\ a.sign = b.sign
             THEN [result |-> IF a.sign = 0 THEN InfPattern ELSE NegInfPattern,
                   flags |-> NoFlags]
             ELSE IF a.is_inf /\ b.is_inf /\ a.sign # b.sign
             THEN [result |-> QNaNPattern, flags |-> InvalidFlags]
             ELSE LET inf == IF a.is_inf THEN a ELSE b
                  IN  [result |-> IF inf.sign = 0 THEN InfPattern
                                  ELSE NegInfPattern,
                       flags |-> NoFlags]
        ELSE IF a.is_zero THEN [result |-> b_bits, flags |-> NoFlags]
        ELSE IF b.is_zero THEN [result |-> a_bits, flags |-> NoFlags]
        ELSE AddCore(a, b)

\* FloatArithmetic.sub: add with the sign bit of B flipped.
FloatSub(a_bits, b_bits) ==
    FloatAdd(a_bits, [b_bits EXCEPT ![1] = 1 - b_bits[1]])

\* Steps 1 to 5 of mul: sign, exponent sum less the bias, the mantissa
\* product through MDU.mul on zero-extended operands, the window
\* mantissa_64[16:40] of hi:rd, one normalisation step, repack.
MulCore(a, b) ==
    LET sign_res == XOR(a.sign, b.sign)
        exp_res == a.exp_val + b.exp_val - Bias
        mul_result == MDU_mul(ZeroExtend(a.mantissa_24, XLEN),
                              ZeroExtend(b.mantissa_24, XLEN))
        mantissa_64 == Concat(mul_result.hi, mul_result.rd)
        window_lo == 2 * (XLEN - (MANTISSA_WIDTH + 1))
        mantissa_res_24 == Slice(mantissa_64, window_lo,
                                 window_lo + MANTISSA_WIDTH + 1)
    IN  IF mantissa_res_24[1] = 1
        THEN Repack(sign_res, exp_res, mantissa_res_24)
        ELSE Repack(sign_res, exp_res - 1,
                    ShiftLeftLogical(mantissa_res_24, 1))

\* Variant of FloatArithmetic.mul without the infinity-times-zero case: any
\* product with an infinite operand is a signed infinity.
FloatMul_NoInfTimesZero(a_bits, b_bits) ==
    LET a == GetFields(a_bits)
        b == GetFields(b_bits)
    IN  IF a.is_nan \/ b.is_nan
        THEN [result |-> QNaNPattern, flags |-> InvalidFlags]
        ELSE IF a.is_inf \/ b.is_inf
        THEN [result |-> IF XOR(a.sign, b.sign) = 0 THEN InfPattern
                         ELSE NegInfPattern,
              flags |-> NoFlags]
        ELSE MulCore(a, b)

\* FloatArithmetic.mul
FloatMul(a_bits, b_bits) ==
    LET a == GetFields(a_bits)
        b == GetFields(b_bits)
    IN  IF a.is_nan \/ b.is_nan
        THEN [result |-> QNaNPattern, flags |-> InvalidFlags]
        ELSE IF a.is_inf \/ b.is_inf
        THEN IF (a.is_inf /\ b.is_zero) \/ (b.is_inf /\ a.is_zero)
             THEN [result |-> QNaNPattern, flags |-> InvalidFlags]
             ELSE [result |-> IF XOR(a.sign, b.sign) = 0 THEN InfPattern
                              ELSE NegInfPattern,
                   flags |-> NoFlags]
        ELSE MulCore(a, b)

---------------------------------------------------------------------------
(* part6_float32.py and RISC-V_5.py : Float32                              *)

\* A host float is held exactly, as the record [sign, n, k] worth
\* (-1)^sign * n * 2^k with n a natural number; the infinities and NaN are
\* the records [special |-> ...].

\* n * 2^k >= c and n * 2^k < c for a natural number c.
ValueGE(n, k, c) == IF k >= 0 THEN n * Pow2(k) >= c ELSE n >= c * Pow2(-k)

\* The number of binary digits of n.
RECURSIVE BitLength(_)
BitLength(n) == IF n = 0 THEN 0 ELSE 1 + BitLength(n \div 2)

\* n / 2^d rounded to the nearest integer, ties to the even one (d >= 1).
RoundHalfEven(n, d) ==
    LET floor == n \div Pow2(d)
        rest == n % Pow2(d)
        half == Pow2(d - 1)
    IN  IF rest > half \/ (rest = half /\ floor % 2 = 1) THEN floor + 1
        ELSE floor

\* struct.unpack('>I', struct.pack('>f', value)): the pattern of the
\* nearest value of the format, as a number below 2^(XLEN-1) to which the
\* sign bit is added; OverflowError when the rounded value is beyond the
\* largest finite one.
StructPack(value) ==
    LET e == BitLength(value.n) - 1 + value.k
        biased == e + Bias
        q == IF biased >= 1 THEN e - MANTISSA_WIDTH
             ELSE 1 - Bias - MANTISSA_WIDTH
        m == IF value.k >= q THEN value.n * Pow2(value.k - q)
             ELSE RoundHalfEven(value.n, q - value.k)
        magnitude == ((IF biased >= 1 THEN biased ELSE 1) - 1)
                         * Pow2(MANTISSA_WIDTH) + m
    IN  IF value.n = 0 THEN [packed_int |-> value.sign * Pow2(XLEN - 1)]
        ELSE IF magnitude >= ExpAllOnes * Pow2(MANTISSA_WIDTH)
        THEN [raised |-> "OverflowError"]
        ELSE [packed_int |-> value.sign * Pow2(XLEN - 1) + magnitude]

\* Variant of Float32.pack that stores the bits LSB first.
Float32_pack_LsbFirst(value) ==
    LET packed == StructPack(value)
        packed_int == IF "raised" \in DOMAIN packed
                      THEN (1 - value.sign) * Unsigned(InfPattern)
                           + value.sign * Unsigned(NegInfPattern)
                      ELSE packed.packed_int
        low == packed_int % Pow2(XLEN - 1)
    IN  [bits |-> ToSeq([i \in 1..XLEN |-> (packed_int \div Pow2(i - 1)) % 2],
                        XLEN),
         special |-> IF low = Unsigned(InfPattern) THEN "infinity"
                     ELSE IF low > Unsigned(InfPattern) THEN "nan"
                     ELSE "None"]

\* Float32.pack of part6_float32.py: the host's pattern, an infinity when
\* the host raises OverflowError, written into the bits MSB first; special
\* is read off the pattern without its sign.
Float32_pack(value) ==
    LET packed == StructPack(value)
        packed_int == IF "raised" \in DOMAIN packed
                      THEN (1 - value.sign) * Unsigned(InfPattern)
                           + value.sign * Unsigned(NegInfPattern)
                      ELSE packed.packed_int
        low == packed_int % Pow2(XLEN - 1)
    IN  [bits |-> MagnitudeBits(packed_int, XLEN),
         special |-> IF low = Unsigned(InfPattern) THEN "infinity"
                     ELSE IF low > Unsigned(InfPattern) THEN "nan"
                     ELSE "None"]

\* struct.unpack('>f', struct.pack('>I', packed_int)): the value a pattern
\* stands for, subnormal patterns included.
StructUnpack(bits) ==
    LET exponent == Unsigned(Slice(bits, 1, 1 + EXPONENT_WIDTH))
        fraction == Unsigned(Slice(bits, 1 + EXPONENT_WIDTH, Len(bits)))
    IN  IF exponent = ExpAllOnes
        THEN IF fraction = 0 THEN [special |-> "inf", sign |-> bits[1]]
             ELSE [special |-> "nan"]
        ELSE IF exponent = 0
        THEN [sign |-> bits[1], n |-> fraction,
              k |-> 1 - Bias - MANTISSA_WIDTH]
        ELSE [sign |-> bits[1], n |-> Pow2(MANTISSA_WIDTH) + fraction,
              k |-> exponent - Bias - MANTISSA_WIDTH]

\* Float32.unpack of part6_float32.py
Float32_unpack(bits) ==
    [value |-> StructUnpack(bits), sign |-> bits[1],
     exponent |-> Unsigned(Slice(bits, 1, 1 + EXPONENT_WIDTH))]

\* The normalisation loops of pack in RISC-V_5.py: halve while >= 2.0,
\* double while < 1.0, counting the exponent.
RECURSIVE NormalizeValue(_, _, _)
NormalizeValue(n, k, exponent) ==
    IF ValueGE(n, k, 2) THEN NormalizeValue(n, k - 1, exponent + 1)
    ELSE IF ~ValueGE(n, k, 1) THEN NormalizeValue(n, k + 1, exponent - 1)
    ELSE [n |-> n, k |-> k, exponent |-> exponent]

\* The mantissa loop of pack in RISC-V_5.py on mantissa = num / den:
\* double, emit 1 and subtract 1.0 when >= 1.0, else emit 0.
RECURSIVE MantissaLoop(_, _, _, _)
MantissaLoop(num, den, i, bits) ==
    IF i >= MANTISSA_WIDTH THEN bits
    ELSE IF 2 * num >= den
    THEN MantissaLoop(2 * num - den, den, i + 1, Append(bits, 1))
    ELSE MantissaLoop(2 * num, den, i + 1, Append(bits, 0))

\* Float32.pack of RISC-V_5.py for a finite value.
Float32_pack5(value) ==
    IF value.n = 0
    THEN [bits |-> [Zeros(XLEN) EXCEPT ![1] = value.sign], special |-> "zero"]
    ELSE LET v == NormalizeValue(value.n, value.k, 0)
             biased_exp == v.exponent + Bias
             den == Pow2(-v.k)
         IN  IF biased_exp >= ExpAllOnes
             THEN [bits |-> Concat(<<value.sign>>,
                               Concat(Ones(EXPONENT_WIDTH),
                                      Zeros(MANTISSA_WIDTH))),
                   special |-> "overflow"]
             ELSE IF biased_exp <= 0
             THEN [bits |-> [Zeros(XLEN) EXCEPT ![1] = value.sign],
                   special |-> "underflow"]
             ELSE [bits |-> Concat(<<value.sign>>,
                               Concat(MagnitudeBits(biased_exp, EXPONENT_WIDTH),
                                      MantissaLoop(v.n - den, den, 0, <<>>))),
                   special |-> "None"]

\* Float32.unpack of RISC-V_5.py: NaN and infinities, zero (a subnormal
\* pattern reads as +0.0), or 1.m scaled by 2^(exponent - bias).
Float32_unpack5(bits) ==
    LET exponent == Unsigned(Slice(bits, 1, 1 + EXPONENT_WIDTH))
        mantissa_bits == Slice(bits, 1 + EXPONENT_WIDTH, Len(bits))
        value == IF exponent = ExpAllOnes
                 THEN IF AllZero(mantissa_bits)
                      THEN [special |-> "inf", sign |-> bits[1]]
                      ELSE [special |-> "nan"]
                 ELSE IF exponent = 0
                 THEN IF AllZero(mantissa_bits)
                      THEN [sign |-> bits[1], n |-> 0, k |-> 0]
                      ELSE [sign |-> 0, n |-> 0, k |-> 0]
                 ELSE [sign |-> bits[1],
                       n |-> Pow2(MANTISSA_WIDTH) + Unsigned(mantissa_bits),
                       k |-> exponent - Bias - MANTISSA_WIDTH]
    IN  [value |-> value, sign |-> bits[1], exponent |-> exponent,
         mantissa_bits |-> mantissa_bits]

\* Which object FloatArithmetic.add returns as 'result': the operand object
\* b_bits itself when A is zero, the operand object a_bits itself when B is
\* zero, and otherwise a BitVector built by the call.
FloatAddOrigin(a_bits, b_bits) ==
    LET a == GetFields(a_bits)
        b == GetFields(b_bits)
    IN  IF a.is_nan \/ b.is_nan \/ a.is_inf \/ b.is_inf THEN "fresh"
        ELSE IF a.is_zero THEN "b_bits"
        ELSE IF b.is_zero THEN "a_bits"
        ELSE "fresh"

\* Which object FloatArithmetic.sub returns: add is handed a_bits and a
\* local copy of b_bits, so only a_bits can come back.
FloatSubOrigin(a_bits, b_bits) ==
    IF FloatAddOrigin(a_bits, [b_bits EXCEPT ![1] = 1 - b_bits[1]]) = "a_bits"
    THEN "a_bits" ELSE "fresh"

---------------------------------------------------------------------------
(* Operands and the machine                                                *)

Init ==
    /\ rs1 \in BitVectors(XLEN)
    /\ rs2 \in BitVectors(XLEN)
    /\ op = "none"
    /\ out = [done |-> FALSE]

DoAdd ==
    /\ op = "none"
    /\ op' = "add"
    /\ out' = ALU_add(rs1, rs2)
    /\ UNCHANGED <<rs1, rs2>>

DoSub ==
    /\ op = "none"
    /\ op' = "sub"
    /\ out' = ALU_sub(rs1, rs2)
    /\ UNCHANGED <<rs1, rs2>>

DoAdd3 ==
    /\ op = "none"
    /\ op' = "add3"
    /\ out' = ALU3_add(rs1, rs2)
    /\ UNCHANGED <<rs1, rs2>>

DoSub3 ==
    /\ op = "none"
    /\ op' = "sub3"
    /\ out' = ALU3_sub(rs1, rs2)
    /\ UNCHANGED <<rs1, rs2>>

NextALU == DoAdd \/ DoSub \/ DoAdd3 \/ DoSub3

SpecALU == Init /\ [][NextALU]_vars

\* Operands of every width from 1 to MaxWidth, the two widths independent.
InitWidths ==
    /\ rs1 \in UNION {BitVectors(w) : w \in 1..MaxWidth}
    /\ rs2 \in UNION {BitVectors(w) : w \in 1..MaxWidth}
    /\ op = "none"
    /\ out = [done |-> FALSE]

SpecALUWidths == InitWidths /\ [][NextALU]_vars

\* An integer and a width handed to encode: every width up to the word
\* width, every value from well below to well above the range of the word.
InitEncode ==
    /\ rs1 \in -Pow2(XLEN)..Pow2(XLEN)
    /\ rs2 \in 1..XLEN
    /\ op = "none"
    /\ out = [done |-> FALSE]

\* TwosComplement.encode(value, width)
DoEncode ==
    /\ op = "none"
    /\ op' = "encode"
    /\ out' = Encode(rs1, rs2)
    /\ UNCHANGED <<rs1, rs2>>

\* result = encode(val); decoded_val = decode(result['bits'])['value']
DoEncodeDecode ==
    /\ op = "none"
    /\ op' = "encode_decode"
    /\ out' = LET result == Encode(rs1, rs2)
              IN  [bits |-> result.bits, overflow |-> result.overflow,
                   value |-> Decode(result.bits)]
    /\ UNCHANGED <<rs1, rs2>>

NextEncode == DoEncode \/ DoEncodeDecode

SpecEncode == InitEncode /\ [][NextEncode]_vars

\* A BitVector of any width up to the word width handed to decode, rs2
\* holding its length.
InitDecode ==
    /\ rs1 \in UNION {BitVectors(w) : w \in 1..XLEN}
    /\ rs2 = Len(rs1)
    /\ op = "none"
    /\ out = [done |-> FALSE]

\* TwosComplement.decode(bits)
DoDecode ==
    /\ op = "none"
    /\ op' = "decode"
    /\ out' = [value |-> Decode(rs1)]
    /\ UNCHANGED <<rs1, rs2>>

\* encode(decode(bits)['value'], len(bits))
DoDecodeEncode ==
    /\ op = "none"
    /\ op' = "decode_encode"
    /\ out' = LET value == Decode(rs1)
                  result == Encode(value, rs2)
              IN  [value |-> value, bits |-> result.bits,
                   overflow |-> result.overflow]
    /\ UNCHANGED <<rs1, rs2>>

NextDecode == DoDecode \/ DoDecodeEncode

SpecDecode == InitDecode /\ [][NextDecode]_vars

\* A BitVector of any width up to the word width and a shift amount from 0
\* to twice the word width handed to the Shifter.
InitShift ==
    /\ rs1 \in UNION {BitVectors(w) : w \in 1..XLEN}
    /\ rs2 \in 0..(2 * XLEN)
    /\ op = "none"
    /\ out = [done |-> FALSE]

DoSll ==
    /\ op = "none"
    /\ op' = "sll"
    /\ out' = [result |-> ShiftLeftLogical(rs1, rs2)]
    /\ UNCHANGED <<rs1, rs2>>

DoSrl ==
    /\ op = "none"
    /\ op' = "srl"
    /\ out' = [result |-> ShiftRightLogical(rs1, rs2)]
    /\ UNCHANGED <<rs1, rs2>>

DoSra ==
    /\ op = "none"
    /\ op' = "sra"
    /\ out' = [result |-> ShiftRightArithmetic(rs1, rs2)]
    /\ UNCHANGED <<rs1, rs2>>

NextShift == DoSll \/ DoSrl \/ DoSra

SpecShift == InitShift /\ [][NextShift]_vars

\* A BitVector of any width from 0 to one more than a word handed to the
\* text conversions.
InitText ==
    /\ rs1 \in UNION {BitVectors(w) : w \in 0..(NIBBLE * HEX_WORD_DIGITS + 1)}
    /\ rs2 = <<>>
    /\ op = "none"
    /\ out = [done |-> FALSE]

DoToHex ==
    /\ op = "none"
    /\ op' = "to_hex"
    /\ out' = [text |-> ToHex(rs1)]
    /\ UNCHANGED <<rs1, rs2>>

DoToHex1 ==
    /\ op = "none"
    /\ op' = "to_hex1"
    /\ out' = [text |-> ToHex1(rs1)]
    /\ UNCHANGED <<rs1, rs2>>

DoToBin ==
    /\ op = "none"
    /\ op' = "to_bin"
    /\ out' = [text |-> ToBin(rs1)]
    /\ UNCHANGED <<rs1, rs2>>

\* BitVector.from_hex(b.to_hex()) of part1_foundation.py
DoHexRoundTrip ==
    /\ op = "none"
    /\ op' = "to_hex_from_hex"
    /\ out' = FromHex(ToHex(rs1))
    /\ UNCHANGED <<rs1, rs2>>

\* BitVector.from_hex(b.to_hex()) of RISC-V_1.py
DoHexRoundTrip1 ==
    /\ op = "none"
    /\ op' = "to_hex_from_hex1"
    /\ out' = FromHex1(ToHex1(rs1))
    /\ UNCHANGED <<rs1, rs2>>

NextText ==
    DoToHex \/ DoToHex1 \/ DoToBin \/ DoHexRoundTrip \/ DoHexRoundTrip1

SpecText == InitText /\ [][NextText]_vars

\* A call whose returned BitVector the caller then writes into: out keeps
\* the returned vector, which object it is, and the operands as they were.
Returned(result, origin) ==
    [result |-> result, origin |-> origin, a_before |-> rs1, b_before |-> rs2]

CallFAdd ==
    /\ op = "none"
    /\ op' = "fadd"
    /\ out' = Returned(FloatAdd(rs1, rs2).result, FloatAddOrigin(rs1, rs2))
    /\ UNCHANGED <<rs1, rs2>>

CallFSub ==
    /\ op = "none"
    /\ op' = "fsub"
    /\ out' = Returned(FloatSub(rs1, rs2).result, FloatSubOrigin(rs1, rs2))
    /\ UNCHANGED <<rs1, rs2>>

\* mul returns from_hex patterns or the vector _repack builds.
CallFMul ==
    /\ op = "none"
    /\ op' = "fmul"
    /\ out' = Returned(FloatMul(rs1, rs2).result, "fresh")
    /\ UNCHANGED <<rs1, rs2>>

\* The remainder of Divider.div: rs1_bits.copy() on division by zero, a
\* register of the call otherwise.
CallDiv ==
    /\ op = "none"
    /\ op' = "div"
    /\ out' = Returned(Divider_div(rs1, rs2).remainder, "fresh")
    /\ UNCHANGED <<rs1, rs2>>

\* ALU.add fills result = BitVector(width).
CallAdd ==
    /\ op = "none"
    /\ op' = "add"
    /\ out' = Returned(ALU_add(rs1, rs2).result, "fresh")
    /\ UNCHANGED <<rs1, rs2>>

\* result[idx] = 1 - result[idx] by the caller: the write lands in the
\* returned object, which is an operand when the call returned one.
WriteResult ==
    /\ op \in {"fadd", "fsub", "fmul", "div", "add"}
    /\ \E idx \in 0..(XLEN - 1) :
        LET written == SetItem(out.result, idx, 1 - out.result[idx + 1])
        IN  /\ out' = [out EXCEPT !.result = written]
            /\ rs1' = IF out.origin = "a_bits" THEN written ELSE rs1
            /\ rs2' = IF out.origin = "b_bits" THEN written ELSE rs2
    /\ op' = "setitem_result"

NextAlias ==
    CallFAdd \/ CallFSub \/ CallFMul \/ CallDiv \/ CallAdd \/ WriteResult

SpecAlias == Init /\ [][NextAlias]_vars

\* A BitVector of any width from 1 to the word width and a new width from 0
\* to twice the word width handed to sign_extend / zero_extend.
InitExtend ==
    /\ rs1 \in UNION {BitVectors(w) : w \in 1..XLEN}
    /\ rs2 \in 0..(2 * XLEN)
    /\ op = "none"
    /\ out = [done |-> FALSE]

DoSignExtend ==
    /\ op = "none"
    /\ op' = "sign_extend"
    /\ out' = [result |-> SignExtend(rs1, rs2)]
    /\ UNCHANGED <<rs1, rs2>>

DoZeroExtend ==
    /\ op = "none"
    /\ op' = "zero_extend"
    /\ out' = [result |-> ZeroExtend(rs1, rs2)]
    /\ UNCHANGED <<rs1, rs2>>

DoSignExtend2 ==
    /\ op = "none"
    /\ op' = "sign_extend2"
    /\ out' = [result |-> SignExtend2(rs1, rs2)]
    /\ UNCHANGED <<rs1, rs2>>

DoZeroExtend2 ==
    /\ op = "none"
    /\ op' = "zero_extend2"
    /\ out' = [result |-> ZeroExtend2(rs1, rs2)]
    /\ UNCHANGED <<rs1, rs2>>

NextExtend == DoSignExtend \/ DoZeroExtend \/ DoSignExtend2 \/ DoZeroExtend2

SpecExtend == InitExtend /\ [][NextExtend]_vars

\* The characters texts are made of: hexadecimal digits of both cases, the
\* letters of the prefix, and characters that are no hexadecimal digit.
InputChars == {"0", "1", "9", "a", "F", "G", "x", "X", "_"}

\* A text handed to from_hex in rs1: an optional 0x / 0X prefix, then up to
\* one character more than the digits of a word.
InitHex ==
    /\ \E prefix \in {<<>>, <<"0", "x">>, <<"0", "X">>} :
       \E body \in UNION {[1..k -> InputChars] : k \in 0..(HEX_WORD_DIGITS + 1)} :
           rs1 = Concat(prefix, body)
    /\ rs2 = <<>>
    /\ op = "none"
    /\ out = [done |-> FALSE]

DoFromHex ==
    /\ op = "none"
    /\ op' = "from_hex"
    /\ out' = FromHex(rs1)
    /\ UNCHANGED <<rs1, rs2>>

DoFromHex1 ==
    /\ op = "none"
    /\ op' = "from_hex1"
    /\ out' = FromHex1(rs1)
    /\ UNCHANGED <<rs1, rs2>>

NextHex == DoFromHex \/ DoFromHex1

SpecHex == InitHex /\ [][NextHex]_vars

\* Values handed to the constructor and to the setter: false, true, and a
\* true value that is no bit.
Values == {0, 1, 2}

\* Two BitVector objects in rs1 and rs2, each freshly constructed from a
\* width; out keeps the length each was constructed with and what the last
\* call raised.
InitBitVector ==
    /\ rs1 \in {Zeros(w) : w \in 0..MaxWidth}
    /\ rs2 \in {Zeros(w) : w \in 0..MaxWidth}
    /\ op = "new_width"
    /\ out = [len1 |-> Len(rs1), len2 |-> Len(rs2), raised |-> "none", val |-> 0]

\* Object number slot is replaced by a newly constructed one.
Constructed(slot, bits, length) ==
    /\ rs1' = IF slot = 1 THEN bits ELSE rs1
    /\ rs2' = IF slot = 2 THEN bits ELSE rs2
    /\ out' = [len1 |-> IF slot = 1 THEN length ELSE out.len1,
               len2 |-> IF slot = 2 THEN length ELSE out.len2,
               raised |-> "none", val |-> 0]

\* BitVector(width)
NewFromWidth ==
    \E slot \in {1, 2}, width \in 0..MaxWidth :
        /\ op' = "new_width"
        /\ Constructed(slot, Zeros(width), width)

\* BitVector(list) of part1_foundation.py, the list holding any values.
NewFromList ==
    \E slot \in {1, 2} :
    \E list \in UNION {[1..k -> Values] : k \in 0..MaxWidth} :
        /\ op' = "new_list"
        /\ Constructed(slot, FromList(list), Len(list))

\* BitVector(list) of RISC-V_1.py, the list holding bits.
NewFromBits1 ==
    \E slot \in {1, 2} :
    \E list \in UNION {BitVectors(k) : k \in 0..MaxWidth} :
        /\ op' = "new_list1"
        /\ Constructed(slot, FromList1(list), Len(list))

\* bv[idx] = val
SetIndexed ==
    \E slot \in {1, 2}, idx \in (-MaxWidth - 1)..MaxWidth, val \in Values :
        LET bits == IF slot = 1 THEN rs1 ELSE rs2
        IN  /\ op' = "setitem"
            /\ IF IndexInRange(bits, idx)
               THEN /\ rs1' = IF slot = 1 THEN SetItem(rs1, idx, val) ELSE rs1
                    /\ rs2' = IF slot = 2 THEN SetItem(rs2, idx, val) ELSE rs2
                    /\ out' = [out EXCEPT !.raised = "none", !.val = val]
               ELSE /\ UNCHANGED <<rs1, rs2>>
                    /\ out' = [out EXCEPT !.raised = "IndexError", !.val = val]

\* other = bv.copy()
CopyObject ==
    \E slot \in {1, 2} :
        LET bits == IF slot = 1 THEN rs1 ELSE rs2
        IN  /\ op' = "copy"
            /\ Constructed(3 - slot, Copy(bits), Len(bits))

NextBitVector ==
    NewFromWidth \/ NewFromList \/ NewFromBits1 \/ SetIndexed \/ CopyObject

SpecBitVector == InitBitVector /\ [][NextBitVector]_vars

DoDiv ==
    /\ op = "none"
    /\ op' = "div"
    /\ out' = Divider_div(rs1, rs2)
    /\ UNCHANGED <<rs1, rs2>>

DoDiv5 ==
    /\ op = "none"
    /\ op' = "div5"
    /\ out' = Divider5_div(rs1, rs2)
    /\ UNCHANGED <<rs1, rs2>>

NextDiv == DoDiv \/ DoDiv5

SpecDiv == Init /\ [][NextDiv]_vars

\* Divider.div taken one loop iteration at a time.  The special cases return
\* at once; the general path loads the magnitude registers, runs "for i in
\* range(1, width + 1)" and applies the sign fix-up.  out holds the registers
\* R, Q, M, the loop counter i and R_msb, the bit popped off R by the last
\* shift.
DivEdgeCase ==
    /\ op = "none"
    /\ \/ AllZero(rs2)
       \/ rs1 = Encode(-Pow2(XLEN - 1), XLEN).bits /\ rs2 = Encode(-1, XLEN).bits
    /\ op' = "div_edge"
    /\ out' = Divider_div(rs1, rs2)
    /\ UNCHANGED <<rs1, rs2>>

DivSetup ==
    /\ op = "none"
    /\ ~AllZero(rs2)
    /\ ~(rs1 = Encode(-Pow2(XLEN - 1), XLEN).bits /\ rs2 = Encode(-1, XLEN).bits)
    /\ op' = "div_loop"
    /\ out' = [done |-> FALSE,
               R |-> Zeros(Len(rs1)),
               Q |-> IF IsNeg(rs1) THEN NegateWord(rs1) ELSE rs1,
               M |-> IF IsNeg(rs2) THEN NegateWord(rs2) ELSE rs2,
               i |-> 1,
               R_msb |-> 0]
    /\ UNCHANGED <<rs1, rs2>>

DivIterate ==
    /\ op = "div_loop"
    /\ out.i <= Len(rs1)
    /\ LET s == DivStep(out.R, out.Q, out.M)
       IN  out' = [out EXCEPT !.R = s.R, !.Q = s.Q, !.i = out.i + 1,
                              !.R_msb = out.R[1]]
    /\ UNCHANGED <<rs1, rs2, op>>

DivFixup ==
    /\ op = "div_loop"
    /\ out.i > Len(rs1)
    /\ op' = "div_done"
    /\ out' = [done |-> TRUE, R |-> out.R, Q |-> out.Q, M |-> out.M,
               quotient |-> IF IsNeg(rs1) # IsNeg(rs2) THEN NegateWord(out.Q)
                            ELSE out.Q,
               remainder |-> IF IsNeg(rs1) /\ ~AllZero(out.R)
                             THEN NegateWord(out.R) ELSE out.R]
    /\ UNCHANGED <<rs1, rs2>>

NextDivLoop == DivEdgeCase \/ DivSetup \/ DivIterate \/ DivFixup

SpecDivLoop == Init /\ [][NextDivLoop]_vars

DoMul ==
    /\ op = "none"
    /\ op' = "mul"
    /\ out' = MDU_mul(rs1, rs2)
    /\ UNCHANGED <<rs1, rs2>>

NextMul == DoMul

SpecMul == Init /\ [][NextMul]_vars

DoFAdd ==
    /\ op = "none"
    /\ op' = "fadd"
    /\ out' = FloatAdd(rs1, rs2)
    /\ UNCHANGED <<rs1, rs2>>

DoFSub ==
    /\ op = "none"
    /\ op' = "fsub"
    /\ out' = FloatSub(rs1, rs2)
    /\ UNCHANGED <<rs1, rs2>>

DoFMul ==
    /\ op = "none"
    /\ op' = "fmul"
    /\ out' = FloatMul(rs1, rs2)
    /\ UNCHANGED <<rs1, rs2>>

NextFloat == DoFAdd \/ DoFSub \/ DoFMul

SpecFloat == Init /\ [][NextFloat]_vars

\* Host floats handed to Float32.pack: numerators of up to MANTISSA_WIDTH + 2
\* digits (two more than the format keeps) at every scale from below the
\* smallest normal value to beyond the largest.
MaxNumerator == Pow2(MANTISSA_WIDTH + 2) - 1

HostFloats ==
    [sign : Bit, n : 1..MaxNumerator,
     k : (-Bias - MANTISSA_WIDTH - 1)..(ExpAllOnes - Bias)]

InitPack ==
    /\ rs1 \in HostFloats
    /\ rs2 = <<>>
    /\ op = "none"
    /\ out = [done |-> FALSE]

DoPack ==
    /\ op = "none"
    /\ op' = "pack"
    /\ out' = [done |-> TRUE, result |-> Float32_pack(rs1)]
    /\ UNCHANGED <<rs1, rs2>>

DoPackUnpack ==
    /\ op = "none"
    /\ op' = "pack_unpack"
    /\ out' = [done |-> TRUE,
               result |-> Float32_unpack(Float32_pack(rs1).bits)]
    /\ UNCHANGED <<rs1, rs2>>

DoPack5 ==
    /\ op = "none"
    /\ op' = "pack5"
    /\ out' = [done |-> TRUE, result |-> Float32_pack5(rs1)]
    /\ UNCHANGED <<rs1, rs2>>

DoPackUnpack5 ==
    /\ op = "none"
    /\ op' = "pack_unpack5"
    /\ out' = [done |-> TRUE,
               result |-> Float32_unpack5(Float32_pack5(rs1).bits)]
    /\ UNCHANGED <<rs1, rs2>>

NextPack == DoPack \/ DoPackUnpack \/ DoPack5 \/ DoPackUnpack5

SpecPack == InitPack /\ [][NextPack]_vars

\* Arguments of _repack: a sign, an exponent value from below the underflow
\* threshold to above the overflow threshold, and a mantissa with its leading
\* bit.
InitRepack ==
    /\ rs1 \in [sign : Bit, exp_val : (-2)..(ExpAllOnes + 2)]
    /\ rs2 \in BitVectors(MANTISSA_WIDTH + 1)
    /\ op = "none"
    /\ out = [done |-> FALSE]

DoRepack ==
    /\ op = "none"
    /\ op' = "repack"
    /\ out' = [done |-> TRUE] @@ Repack(rs1.sign, rs1.exp_val, rs2)
    /\ UNCHANGED <<rs1, rs2>>

NextRepack == DoRepack

SpecRepack == InitRepack /\ [][NextRepack]_vars

---------------------------------------------------------------------------
(* Reference arithmetic used to state the properties                       *)

\* The unsigned value of a bit pattern, MSB first.
RECURSIVE WeightedSum(_, _)
WeightedSum(bits, i) ==
    IF i = 0 THEN 0
    ELSE bits[i] * Pow2(Len(bits) - i) + WeightedSum(bits, i - 1)

UValue(bits) == WeightedSum(bits, Len(bits))

\* The two's-complement value of a bit pattern.
SValue(bits) == UValue(bits) - bits[1] * Pow2(Len(bits))

InSignedRange(v, width) == -Pow2(width - 1) <= v /\ v <= Pow2(width - 1) - 1

B2N(p) == IF p THEN 1 ELSE 0

\* The operation returned a result instead of raising.
NoError(result) == "raised" \notin DOMAIN result

\* 0111...1, 1000...0, 0...01 and 1...1 of the word width.
MaxPattern == ToSeq([i \in 1..XLEN |-> IF i = 1 THEN 0 ELSE 1], XLEN)

MinPattern == ToSeq([i \in 1..XLEN |-> IF i = 1 THEN 1 ELSE 0], XLEN)

OnePattern == ToSeq([i \in 1..XLEN |-> IF i = XLEN THEN 1 ELSE 0], XLEN)

\* 0111...1 and 1000...0 of a given width.
MaxPatternOf(width) == ToSeq([i \in 1..width |-> IF i = 1 THEN 0 ELSE 1], width)

MinPatternOf(width) == ToSeq([i \in 1..width |-> IF i = 1 THEN 1 ELSE 0], width)

---------------------------------------------------------------------------
(* Properties of the ALU                                                   *)

\* C8: ALU.add returns (A + B) mod 2^w with C = 1 exactly when the unsigned
\* sum reaches 2^w, N = the MSB of the result and Z = 1 exactly when the
\* result is zero; 0111...1 + 1 gives 1000...0 with N=1, Z=0, C=0, V=1.
C8_AddResultAndFlags ==
    op = "add" =>
        LET sum == UValue(rs1) + UValue(rs2)
            wrapped == sum % Pow2(XLEN)
        IN  /\ Len(out.result) = XLEN
            /\ UValue(out.result) = wrapped
            /\ out.C = B2N(sum >= Pow2(XLEN))
            /\ out.N = B2N(wrapped >= Pow2(XLEN - 1))
            /\ out.Z = B2N(wrapped = 0)
            /\ (rs1 = MaxPattern /\ rs2 = OnePattern =>
                    /\ out.result = MinPattern
                    /\ out.N = 1 /\ out.Z = 0 /\ out.C = 0 /\ out.V = 1)

C8_Witness ==
    /\ op = "add" /\ rs1 = MaxPattern /\ rs2 = OnePattern
    /\ out.result = MinPattern /\ out.V = 1

C10_OverflowFlagsAgree ==
    /\ op = "add" =>
        /\ out.V = ALU3_add(rs1, rs2).V
        /\ out.V = B2N(~InSignedRange(SValue(rs1) + SValue(rs2), XLEN))
    /\ op = "add3" =>
        /\ out.V = ALU_add(rs1, rs2).V
        /\ out.V = B2N(~InSignedRange(SValue(rs1) + SValue(rs2), XLEN))
    /\ op = "sub" =>
        /\ out.V = ALU3_sub(rs1, rs2).V
        /\ out.V = B2N(~InSignedRange(SValue(rs1) - SValue(rs2), XLEN))
    /\ op = "sub3" =>
        /\ out.V = ALU_sub(rs1, rs2).V
        /\ out.V = B2N(~InSignedRange(SValue(rs1) - SValue(rs2), XLEN))

C10_Witness ==
    /\ op = "sub3" /\ rs1[1] = 0 /\ rs2 = MinPattern /\ out.V = 1

\* C11: ALU.add and ALU.sub (part3_alu.py) and ALU.sub of RISC-V_3.py fail
\* with the width-mismatch error, returning no result, whenever the two
\* operands differ in length, whichever is the longer.
C11_WidthMismatchRaised ==
    (op \in {"add", "sub", "sub3"} /\ Len(rs1) # Len(rs2)) => out = WidthError

---------------------------------------------------------------------------
(* Properties of TwosComplement                                            *)

\* C12: for every width w >= 1 and every integer v of the signed range of
\* w, decode(encode(v, w).bits).value = v and encode reports no overflow.
C12_EncodeDecodeRoundTrip ==
    (op = "encode_decode" /\ InSignedRange(rs1, rs2)) =>
        /\ out.value = rs1
        /\ out.overflow = FALSE
        /\ Len(out.bits) = rs2

C12_Witness ==
    /\ op = "encode_decode" /\ rs2 = XLEN /\ rs1 = -Pow2(XLEN - 1)
    /\ out.value = -Pow2(XLEN - 1) /\ out.overflow = FALSE

\* C13: for every BitVector b of width w >= 1, the pattern 1000...0
\* included, encode(decode(b).value, w) returns b bit for bit with no
\* overflow.
C13_DecodeEncodeRoundTrip ==
    op = "decode_encode" =>
        /\ out.bits = rs1
        /\ out.overflow = FALSE

C13_Witness ==
    /\ op = "decode_encode" /\ rs1 = MinPattern
    /\ out.value = -Pow2(XLEN - 1) /\ out.bits = MinPattern

\* C14: encode never raises; it reports overflow exactly when the value is
\* outside the signed range of the width, and then returns 0111...1 for a
\* value too large and 1000...0 for a value too small.
C14_EncodeClamps ==
    op = "encode" =>
        /\ NoError(out)
        /\ out.overflow = ~InSignedRange(rs1, rs2)
        /\ Len(out.bits) = rs2
        /\ (rs1 > Pow2(rs2 - 1) - 1 => out.bits = MaxPatternOf(rs2))
        /\ (rs1 < -Pow2(rs2 - 1) => out.bits = MinPatternOf(rs2))

C14_Witness ==
    /\ op = "encode" /\ rs2 = XLEN /\ rs1 = Pow2(XLEN - 1)
    /\ out.overflow = TRUE /\ out.bits = MaxPattern

---------------------------------------------------------------------------
(* Properties of the Divider                                               *)

\* C1: for every non-zero divisor, the pair (minimum value, -1) excepted,
\* Divider.div returns q and r with dividend = q * divisor + r,
\* |r| < |divisor|, q truncated toward zero (sign = XOR of the operand signs
\* unless q = 0) and r zero or of the dividend's sign, the minimum value
\* included as dividend or as divisor.
C1_DivTruncatingContract ==
    (op = "div" /\ ~AllZero(rs2) /\ ~(rs1 = MinPattern /\ AllOne(rs2))) =>
        LET a == SValue(rs1)
            b == SValue(rs2)
            q == SValue(out.quotient)
            r == SValue(out.remainder)
        IN  /\ a = q * b + r
            /\ Abs(r) < Abs(b)
            /\ (q # 0 => ((q < 0) <=> ((a < 0) # (b < 0))))
            /\ (r = 0 \/ ((r < 0) <=> (a < 0)))

\* C6: with an all-zero divisor Divider.div raises nothing and returns the
\* all-ones quotient (-1) and the dividend, bit for bit, as remainder, for
\* every dividend, zero and the minimum value included.
C6_DivByZero ==
    (op = "div" /\ AllZero(rs2)) =>
        /\ NoError(out)
        /\ out.quotient = Ones(XLEN)
        /\ SValue(out.quotient) = -1
        /\ out.remainder = rs1

C6_Witness ==
    /\ op = "div" /\ AllZero(rs2) /\ rs1 = MinPattern
    /\ out.quotient = Ones(XLEN) /\ out.remainder = MinPattern

\* C7: the minimum value divided by -1 raises nothing and returns the
\* minimum value as quotient and an all-zero remainder, in part5_division.py
\* and in RISC-V_5.py.
C7_DivOverflowCase ==
    (op \in {"div", "div5"} /\ rs1 = MinPattern /\ AllOne(rs2)) =>
        /\ NoError(out)
        /\ out.quotient = MinPattern
        /\ out.quotient = rs1
        /\ AllZero(out.remainder) /\ Len(out.remainder) = XLEN

C7_Witness ==
    /\ op = "div" /\ rs1 = MinPattern /\ AllOne(rs2)
    /\ out.quotient = MinPattern /\ AllZero(out.remainder)

---------------------------------------------------------------------------
(* Properties of the MDU                                                   *)

\* C2: for every operand pair MDU.mul returns halves hi and rd such that
\* hi:rd is the two's-complement encoding, on twice the width, of the exact
\* signed product of the operands.
C2_MulFullProduct ==
    op = "mul" =>
        /\ Len(out.hi) = XLEN /\ Len(out.rd) = XLEN
        /\ SValue(Concat(out.hi, out.rd)) = SValue(rs1) * SValue(rs2)

\* C3: the overflow output of MDU.mul is 1 exactly when the exact signed
\* product of the operands lies outside the signed range of the width.
C3_MulOverflowExact ==
    op = "mul" =>
        out.overflow = B2N(~InSignedRange(SValue(rs1) * SValue(rs2), XLEN))

---------------------------------------------------------------------------
(* Properties of FloatArithmetic                                           *)

\* The fields of a pattern read as numbers: biased exponent, and the
\* significand with its leading 1 as an integer in [2^M, 2^(M+1)).
ExpOf(bits) == UValue(Slice(bits, 1, 1 + EXPONENT_WIDTH))

SigOf(bits) ==
    Pow2(MANTISSA_WIDTH) + UValue(Slice(bits, 1 + EXPONENT_WIDTH, Len(bits)))

IsNormal(bits) == 1 <= ExpOf(bits) /\ ExpOf(bits) <= ExpAllOnes - 1

\* C4: for normal operands of the same sign whose exact sum is in the normal
\* range, FloatArithmetic.add returns the common sign with the exponent and
\* mantissa of the exact sum truncated toward zero to MANTISSA_WIDTH + 1
\* significant bits.  Magnitudes are counted in units of 2^(1 - Bias -
\* MANTISSA_WIDTH), so that a pattern is worth SigOf * 2^(ExpOf - 1).
C4_AddSameSignTruncates ==
    LET sum == SigOf(rs1) * Pow2(ExpOf(rs1) - 1)
               + SigOf(rs2) * Pow2(ExpOf(rs2) - 1)
    IN  (/\ op = "fadd" /\ IsNormal(rs1) /\ IsNormal(rs2) /\ rs1[1] = rs2[1]
         /\ sum < Pow2(MANTISSA_WIDTH + 1) * Pow2(ExpAllOnes - 2)) =>
            /\ Len(out.result) = XLEN
            /\ out.result[1] = rs1[1]
            /\ IsNormal(out.result)
            /\ SigOf(out.result) * Pow2(ExpOf(out.result) - 1) <= sum
            /\ sum < (SigOf(out.result) + 1) * Pow2(ExpOf(out.result) - 1)

\* C5: for normal operands whose exact product is in the normal range,
\* FloatArithmetic.mul returns sign = XOR of the operand signs with the
\* exponent and mantissa of the exact product truncated toward zero to
\* MANTISSA_WIDTH + 1 significant bits.  Both sides are scaled by
\* 2^(2 * Bias + 2 * MANTISSA_WIDTH).
C5_MulTruncates ==
    LET product == SigOf(rs1) * SigOf(rs2) * Pow2(ExpOf(rs1) + ExpOf(rs2))
        unit(e) == Pow2(e + Bias + MANTISSA_WIDTH)
    IN  (/\ op = "fmul" /\ IsNormal(rs1) /\ IsNormal(rs2)
         /\ product >= Pow2(MANTISSA_WIDTH) * unit(1)
         /\ product < Pow2(MANTISSA_WIDTH + 1) * unit(ExpAllOnes - 1)) =>
            /\ Len(out.result) = XLEN
            /\ out.result[1] = XOR(rs1[1], rs2[1])
            /\ IsNormal(out.result)
            /\ SigOf(out.result) * unit(ExpOf(out.result)) <= product
            /\ product < (SigOf(out.result) + 1) * unit(ExpOf(out.result))

\* The classes of a pattern, read from its fields as numbers.
FracOf(bits) == UValue(Slice(bits, 1 + EXPONENT_WIDTH, Len(bits)))

IsNaNPattern(bits) ==
    Len(bits) = XLEN /\ ExpOf(bits) = ExpAllOnes /\ FracOf(bits) # 0

IsInfPattern(bits) ==
    Len(bits) = XLEN /\ ExpOf(bits) = ExpAllOnes /\ FracOf(bits) = 0

IsZeroPattern(bits) ==
    Len(bits) = XLEN /\ ExpOf(bits) = 0 /\ FracOf(bits) = 0

\* C15: FloatArithmetic.add follows the special-value table on every pair
\* of patterns: a NaN operand gives a NaN; two infinities of equal sign give
\* that infinity; two infinities of opposite sign give a NaN with the
\* invalid flag set; exactly one infinity gives that infinity; otherwise a
\* zero operand gives the other operand's pattern unchanged.
C15_AddSpecialValues ==
    op = "fadd" =>
        IF IsNaNPattern(rs1) \/ IsNaNPattern(rs2)
        THEN IsNaNPattern(out.result)
        ELSE IF IsInfPattern(rs1) /\ IsInfPattern(rs2)
        THEN IF rs1[1] = rs2[1]
             THEN out.result = rs1
             ELSE IsNaNPattern(out.result) /\ out.flags.invalid = 1
        ELSE IF IsInfPattern(rs1) THEN out.result = rs1
        ELSE IF IsInfPattern(rs2) THEN out.result = rs2
        ELSE IF IsZeroPattern(rs1) \/ IsZeroPattern(rs2)
        THEN \/ IsZeroPattern(rs1) /\ out.result = rs2
             \/ IsZeroPattern(rs2) /\ out.result = rs1
        ELSE TRUE

C15_Witness ==
    /\ op = "fadd" /\ rs1 = InfPattern /\ rs2 = NegInfPattern
    /\ IsNaNPattern(out.result) /\ out.flags.invalid = 1

\* C16: FloatArithmetic.mul follows the special-value table on every pair
\* of patterns: a NaN operand gives a NaN; zero times infinity, in either
\* order and with any signs, gives a NaN with the invalid flag set; infinity
\* times any other operand gives the infinity whose sign is the XOR of the
\* operand signs.
C16_MulSpecialValues ==
    op = "fmul" =>
        IF IsNaNPattern(rs1) \/ IsNaNPattern(rs2)
        THEN IsNaNPattern(out.result)
        ELSE IF \/ IsZeroPattern(rs1) /\ IsInfPattern(rs2)
                \/ IsInfPattern(rs1) /\ IsZeroPattern(rs2)
        THEN IsNaNPattern(out.result) /\ out.flags.invalid = 1
        ELSE IF IsInfPattern(rs1) \/ IsInfPattern(rs2)
        THEN /\ IsInfPattern(out.result)
             /\ out.result[1] = XOR(rs1[1], rs2[1])
        ELSE TRUE

C16_Witness ==
    /\ op = "fmul" /\ IsZeroPattern(rs1) /\ rs1[1] = 1 /\ rs2 = InfPattern
    /\ IsNaNPattern(out.result) /\ out.flags.invalid = 1

\* A pattern with exponent field 0 and a non-zero mantissa field.
IsSubnormalPattern(bits) ==
    Len(bits) = XLEN /\ ExpOf(bits) = 0 /\ FracOf(bits) # 0

\* C23: in FloatArithmetic.add and mul a subnormal operand is treated like
\* a zero: add with a normal other operand returns that operand's pattern
\* unchanged, mul with a finite other operand returns a zero pattern; zero,
\* subnormal, normal, infinity and NaN are mutually exclusive and cover
\* every pattern.
C23_SubnormalFlushedToZero ==
    /\ (op = "fadd" /\ IsSubnormalPattern(rs1) /\ IsNormal(rs2)) =>
           out.result = rs2
    /\ (op = "fadd" /\ IsNormal(rs1) /\ IsSubnormalPattern(rs2)) =>
           out.result = rs1
    /\ (/\ op = "fmul"
        /\ IsSubnormalPattern(rs1) \/ IsSubnormalPattern(rs2)
        /\ ExpOf(rs1) # ExpAllOnes /\ ExpOf(rs2) # ExpAllOnes) =>
           IsZeroPattern(out.result)
    /\ \A bits \in {rs1, rs2} :
           Cardinality({c \in 1..5 :
               \/ c = 1 /\ IsZeroPattern(bits)
               \/ c = 2 /\ IsSubnormalPattern(bits)
               \/ c = 3 /\ IsNormal(bits)
               \/ c = 4 /\ IsInfPattern(bits)
               \/ c = 5 /\ IsNaNPattern(bits)}) = 1

---------------------------------------------------------------------------
(* Properties of the Shifter                                               *)

\* C17: for every width w and every shift amount n >= 0, n >= w included,
\* bit i (0-based, MSB first) of shift_left_logical is input bit i+n when
\* i+n < w and 0 otherwise; bit i of shift_right_logical is input bit i-n
\* when i-n >= 0 and 0 otherwise; shift_right_arithmetic is the same with the
\* input's sign bit in the vacated positions.  Hence n >= w gives all zeros
\* (logical) or all sign bits (arithmetic), n is not reduced modulo w, and
\* the result has the input's width.
C17_ShiftBitwise ==
    LET w == Len(rs1)
        n == rs2
    IN  /\ op = "sll" =>
            /\ Len(out.result) = w
            /\ \A i \in 0..(w - 1) :
                   out.result[i + 1] = IF i + n < w THEN rs1[i + n + 1] ELSE 0
            /\ (n >= w => AllZero(out.result))
        /\ op = "srl" =>
            /\ Len(out.result) = w
            /\ \A i \in 0..(w - 1) :
                   out.result[i + 1] = IF i - n >= 0 THEN rs1[i - n + 1] ELSE 0
            /\ (n >= w => AllZero(out.result))
        /\ op = "sra" =>
            /\ Len(out.result) = w
            /\ \A i \in 0..(w - 1) :
                   out.result[i + 1] =
                       IF i - n >= 0 THEN rs1[i - n + 1] ELSE rs1[1]
            /\ (n >= w => \A i \in 1..w : out.result[i] = rs1[1])

C17_Witness ==
    /\ op = "sra" /\ rs1 = MinPattern /\ rs2 = XLEN + 1
    /\ out.result = Ones(XLEN)

\* C18: for every width-w vector b and every 0 <= n < w,
\* decode(shift_right_arithmetic(b, n)) = floor(decode(b) / 2^n), and
\* decode(shift_left_logical(b, n)) = decode(b) * 2^n whenever that product
\* is in the signed range of w; 3 shifted left by 2 decodes to 12 and -8
\* shifted right arithmetically by 2 decodes to -2.
C18_ShiftArithmeticMeaning ==
    LET w == Len(rs1)
        n == rs2
        v == SValue(rs1)
    IN  /\ (op = "sra" /\ n < w) => Decode(out.result) = v \div Pow2(n)
        /\ (op = "sll" /\ n < w /\ InSignedRange(v * Pow2(n), w)) =>
               Decode(out.result) = v * Pow2(n)

C18_Witness ==
    /\ op = "sra" /\ rs1 = Encode(-8, XLEN).bits /\ rs2 = 2
    /\ Decode(out.result) = -2

---------------------------------------------------------------------------
(* Properties of the BitVector                                             *)

\* C20: after any sequence of constructions (from a width or from a list),
\* indexed sets with any value and copies, every element of every BitVector
\* is exactly 0 or 1 and its length is the length it was constructed with.
C20_BitVectorInvariant ==
    /\ \A i \in 1..Len(rs1) : rs1[i] \in Bit
    /\ \A i \in 1..Len(rs2) : rs2[i] \in Bit
    /\ Len(rs1) = out.len1
    /\ Len(rs2) = out.len2

C20_Witness ==
    /\ op = "setitem" /\ out.val = 2 /\ out.raised = "none"
    /\ rs1 = Ones(MaxWidth) /\ rs2 = Ones(MaxWidth - 1)

---------------------------------------------------------------------------
(* Properties of the BitVector text conversions                            *)

\* A character that is a hexadecimal digit, of either case.
IsHexDigit(char) ==
    char \in {"0", "1", "2", "3", "4", "5", "6", "7", "8", "9",
              "A", "B", "C", "D", "E", "F", "a", "b", "c", "d", "e", "f"}

\* The text after its optional 0x / 0X prefix.
HexBody(text) ==
    IF Len(text) >= 2 /\ text[1] = "0" /\ text[2] \in {"x", "X"}
    THEN DropPrefix(text) ELSE text

C22_ExtendWidthAndBits ==
    LET w == Len(rs1)
        n == rs2
        fill == IF op \in {"sign_extend", "sign_extend2"} THEN rs1[1] ELSE 0
    IN  op \in {"sign_extend", "sign_extend2", "zero_extend", "zero_extend2"} =>
            /\ (n <= w => out.result = rs1)
            /\ (n > w =>
                   /\ Len(out.result) = n
                   /\ \A i \in 1..w : out.result[n - w + i] = rs1[i]
                   /\ \A i \in 1..(n - w) : out.result[i] = fill)
            /\ (fill = rs1[1] => SValue(out.result) = SValue(rs1))
            /\ (fill = 0 => UValue(out.result) = UValue(rs1))
            /\ (op \in {"sign_extend", "sign_extend2"} =>
                   Decode(out.result) = Decode(rs1))

C22_Witness ==
    /\ op = "sign_extend" /\ rs1 = MinPattern /\ rs2 = 2 * XLEN
    /\ Len(out.result) = 2 * XLEN /\ out.result[1] = 1
    /\ Decode(out.result) = -Pow2(XLEN - 1)

---------------------------------------------------------------------------
(* Properties of the returned objects                                      *)

\* C21: no operation modifies an operand, and every BitVector it returns
\* is a fresh object: after the call, setting a bit of the result changes no
\* operand, zero operands of FloatArithmetic.add included.
C21_ResultSharesNoStorage ==
    op \in {"fadd", "fsub", "fmul", "div", "add", "setitem_result"} =>
        rs1 = out.a_before /\ rs2 = out.b_before

---------------------------------------------------------------------------
(* Properties of to_hex and to_bin                                         *)

\* The number a text of upper-case hexadecimal digits spells, from
\* character position lo to the end.
RECURSIVE HexNumber(_, _, _)
HexNumber(text, i, acc) ==
    IF i > Len(text) THEN acc
    ELSE HexNumber(text, i + 1,
                   16 * acc + (CHOOSE d \in 0..15 : hex_chars[d + 1] = text[i]))

\* C24: to_hex of a width-w vector is "0x" followed by exactly ceil(w/4)
\* upper-case hexadecimal digits spelling the value of the bits left-padded
\* with zeros to a multiple of 4 (110101 renders as 0x35); to_bin lists the
\* bits MSB first in groups of 4 separated by "_".
C24_ToHexToBinFormat ==
    LET w == Len(rs1)
        groups == (w + NIBBLE - 1) \div NIBBLE
    IN  /\ op \in {"to_hex", "to_hex1"} =>
            /\ Len(out.text) = 2 + groups
            /\ out.text[1] = "0" /\ out.text[2] = "x"
            /\ \A i \in 3..Len(out.text) :
                   \E d \in 0..15 : hex_chars[d + 1] = out.text[i]
            /\ HexNumber(out.text, 3, 0) = UValue(rs1)
            /\ (rs1 = <<1, 1, 0, 1, 0, 1>> => out.text = <<"0", "x", "3", "5">>)
        /\ op = "to_bin" =>
            /\ Len(out.text) = w + (IF groups > 0 THEN groups - 1 ELSE 0)
            /\ \A i \in 0..(w - 1) :
                   out.text[i + (i \div NIBBLE) + 1] = BitChar(rs1[i + 1])
            /\ \A g \in 1..(groups - 1) : out.text[(NIBBLE + 1) * g] = "_"

---------------------------------------------------------------------------
(* Properties of Float32                                                   *)

\* Two host floats are the same number.
SameNumber(a, b) ==
    /\ "n" \in DOMAIN a /\ "n" \in DOMAIN b
    /\ a.sign = b.sign
    /\ LET low == IF a.k < b.k THEN a.k ELSE b.k
       IN  a.n * Pow2(a.k - low) = b.n * Pow2(b.k - low)

\* The number a normal pattern stands for.
NumberOf(bits) ==
    [sign |-> bits[1], n |-> SigOf(bits), k |-> ExpOf(bits) - Bias - MANTISSA_WIDTH]

\* value is exactly the number of some normal pattern.
ExactlyNormal(value) ==
    \E e \in 1..(ExpAllOnes - 1) :
        \E m \in Pow2(MANTISSA_WIDTH)..(Pow2(MANTISSA_WIDTH + 1) - 1) :
            SameNumber(value, [sign |-> value.sign, n |-> m,
                               k |-> e - Bias - MANTISSA_WIDTH])

\* 3.75 = 1.111b * 2^1, or 3.5 = 1.11b * 2^1 when the mantissa field has
\* only two bits, and its pattern: exponent field bias + 1, leading
\* mantissa bits set (0x40700000 in the 32-bit format).
ExampleDigits == IF MANTISSA_WIDTH < 3 THEN MANTISSA_WIDTH ELSE 3

ExampleValue ==
    [sign |-> 0, n |-> Pow2(ExampleDigits + 1) - 1, k |-> 1 - ExampleDigits]

ExamplePattern ==
    Concat(<<0>>,
           Concat(MagnitudeBits(Bias + 1, EXPONENT_WIDTH),
                  Concat(Ones(ExampleDigits),
                         Zeros(MANTISSA_WIDTH - ExampleDigits))))

C26_RepackFields ==
    op = "repack" =>
        /\ Len(out.result) = XLEN
        /\ out.result[1] = rs1.sign
        /\ (1 <= rs1.exp_val /\ rs1.exp_val <= ExpAllOnes - 1) =>
               /\ ExpOf(out.result) = rs1.exp_val
               /\ Slice(out.result, 1 + EXPONENT_WIDTH, XLEN)
                      = Slice(rs2, 1, MANTISSA_WIDTH + 1)
        /\ rs1.exp_val >= ExpAllOnes =>
               /\ IsInfPattern(out.result)
               /\ out.flags.overflow = 1
        /\ rs1.exp_val <= 0 =>
               /\ IsZeroPattern(out.result)
               /\ out.flags.underflow = 1

\* The mantissa of a normal pattern aligned to exponent e by the right
\* shift of add's step 1.
AlignedTo(bits, e) == SigOf(bits) \div Pow2(e - ExpOf(bits))

\* C27: FloatArithmetic.add of two normal operands of opposite sign returns
\* the sign of the operand of larger magnitude with the absolute difference
\* of the aligned mantissas, renormalised; it returns +0 when the magnitudes
\* are equal; and add(A, B) and add(B, A) return the same word (3.75 + (-2.5)
\* = 1.25 in either order).
C27_AddOppositeSigns ==
    (op = "fadd" /\ IsNormal(rs1) /\ IsNormal(rs2) /\ rs1[1] # rs2[1]) =>
        LET e == IF ExpOf(rs1) > ExpOf(rs2) THEN ExpOf(rs1) ELSE ExpOf(rs2)
            m_a == AlignedTo(rs1, e)
            m_b == AlignedTo(rs2, e)
            difference == Abs(m_a - m_b)
            shift == MANTISSA_WIDTH + 1 - BitLength(difference)
        IN  /\ Len(out.result) = XLEN
            /\ out.result = FloatAdd(rs2, rs1).result
            /\ (ExpOf(rs1) = ExpOf(rs2) /\ m_a = m_b) =>
                   out.result = Zeros(XLEN)
            /\ (m_a # m_b /\ e - shift >= 1) =>
                   /\ out.result[1] = IF m_a > m_b THEN rs1[1] ELSE rs2[1]
                   /\ ExpOf(out.result) = e - shift
                   /\ SigOf(out.result) = difference * Pow2(shift)

\* C28: FloatArithmetic.mul of a zero (+0 or -0, as either operand) and any
\* finite operand returns the zero pattern, exponent field 0 and mantissa
\* field 0, whose sign bit is the XOR of the operand signs.
C28_MulByZero ==
    (/\ op = "fmul"
     /\ IsZeroPattern(rs1) \/ IsZeroPattern(rs2)
     /\ ExpOf(rs1) # ExpAllOnes /\ ExpOf(rs2) # ExpAllOnes) =>
        out.result = [Zeros(XLEN) EXCEPT ![1] = XOR(rs1[1], rs2[1])]

---------------------------------------------------------------------------
(* Properties of the division loop                                         *)

\* The step-wise loop returns what Divider.div returns.
DivLoopAgrees ==
    op = "div_done" =>
        /\ out.quotient = Divider_div(rs1, rs2).quotient
        /\ out.remainder = Divider_div(rs1, rs2).remainder

\* C29: in the general path of Divider.div, at the start of every one of the
\* w loop iterations R < M as unsigned values, so the bit shifted out of R's
\* MSB is always 0; after exactly w iterations the loop ends with
\* dividend magnitude = Q * M + R and R < M.
C29_DivLoopInvariant ==
    /\ op = "div_loop" =>
           /\ out.i <= XLEN + 1
           /\ UValue(out.R) < UValue(out.M)
           /\ out.R_msb = 0
    /\ op = "div_done" =>
           /\ Abs(SValue(rs1)) = UValue(out.Q) * UValue(out.M) + UValue(out.R)
           /\ UValue(out.R) < UValue(out.M)

---------------------------------------------------------------------------
(* Properties of the hexadecimal round trip                                *)

\* C30: for every BitVector b whose width is a positive multiple of 4,
\* BitVector.from_hex(b.to_hex()) equals b in width and in bits: from_hex
\* returns exactly 4 bits per digit, neither padding nor truncating.
C30_HexRoundTrip ==
    (/\ op \in {"to_hex_from_hex", "to_hex_from_hex1"}
     /\ Len(rs1) > 0
     /\ Len(rs1) % NIBBLE = 0) =>
        /\ "bits" \in DOMAIN out
        /\ Len(out.bits) = Len(rs1)
        /\ out.bits = rs1

=============================================================================
